---- MODULE Spec2Model ----
(***************************************************************************)
(* A model of the SPSS .sav -> .xlsx converter:                            *)
(*   src/sav_to_excel.py  spss_date_to_string, convert_sav_to_excel,       *)
(*                        batch_convert_sav_to_excel                       *)
(*   src/gradio_app.py    process_single_sav_file                          *)
(*                                                                         *)
(* Three specifications share the module:                                  *)
(*   SpecDate    the pure function spss_date_to_string on one cell;       *)
(*   SpecEngine  one call of convert_sav_to_excel, statement by statement; *)
(*   Spec        one call of batch_convert_sav_to_excel or of             *)
(*               process_single_sav_file over a small file system.        *)
(***************************************************************************)
EXTENDS Integers, Sequences, FiniteSets, TLC

VARIABLES
    \* ---- the platform ----
    pad_year,      \* TRUE: strftime pads %Y to 4 digits; FALSE: glibc, no padding
    stdout,        \* the lines printed so far
    \* ---- SpecDate ----
    spss_date,     \* the argument of spss_date_to_string
    date_string,   \* its return value, Unset before the call
    \* ---- SpecEngine: one call of convert_sav_to_excel ----
    sav_kind,      \* what lies at sav_path: "missing", "corrupt" or "valid"
    sav_content,   \* the dataset stored in the file: a sequence of [name, label, cells]
    df,            \* the DataFrame: a sequence of [header, cells]
    column_map,    \* the dict of line 31: variable name -> label
    date_idx,      \* the index into date_columns of the loop of line 39
    excel_state,   \* what lies at excel_path
    epc,           \* the position inside convert_sav_to_excel
    eoutcome,      \* "running", "returned" or "raised"
    \* ---- Spec: batch_convert_sav_to_excel / process_single_sav_file ----
    call,          \* which of the two is called: "batch" or "single"
    sav_files,     \* the argument sav_files (batch)
    sav_file,      \* the argument sav_file (single): NoUpload or a path
    disk,          \* disk[p]: what lies at input path p
    out_dir,       \* what lies at output_dir: "missing", "uncreatable", "dir", "file"
    out_files,     \* out_files[stem]: what lies at output_dir/<stem>.xlsx
    i,             \* the number of items the loop of line 78 has processed
    results,       \* the dict results of line 66
    bpc,           \* the position inside the called function
    ret            \* the value returned by process_single_sav_file

(***************************************************************************)
(* Cell values.  A numeric value v is held as hi * 86400 + lo, hi and lo   *)
(* not normalised, because v itself (up to 3 * 10^11 for year 9999) does   *)
(* not fit the checker's integers; the division by 86400 that timedelta    *)
(* performs is still computed (on lo, carrying into hi).                   *)
(***************************************************************************)
Num(hi, lo) == [k |-> "num", hi |-> hi, lo |-> lo, s |-> <<>>]

\* None and NaN: the values pd.isna answers True for.
NoneV == [k |-> "nan", hi |-> 0, lo |-> 0, s |-> <<>>]

\* A str cell.
Str(chars) == [k |-> "str", hi |-> 0, lo |-> 0, s |-> chars]

\* float('inf') / float('-inf').
InfV == [k |-> "inf", hi |-> 0, lo |-> 0, s |-> <<>>]

Unset == [k |-> "unset", hi |-> 0, lo |-> 0, s |-> <<>>]

\* ---- program constants ----
EpochYear == 1582
EpochMonth == 10
EpochDay == 14
SecondsPerDay == 86400
MINYEAR == 1
MAXYEAR == 9999
MaxDeltaDays == 999999999

\* ---- bounds ----
MaxDay == 2
MaxCols == 2
NRows == 1
MaxFiles == 2

(***************************************************************************)
(* The proleptic Gregorian calendar of datetime.                           *)
(***************************************************************************)
IsLeap(y) == (y % 4 = 0) /\ ((y % 100 # 0) \/ (y % 400 = 0))

DaysInMonth(y, m) ==
    IF m = 2 THEN (IF IsLeap(y) THEN 29 ELSE 28)
    ELSE IF m \in {4, 6, 9, 11} THEN 30 ELSE 31

\* The number of days of year y before the first of month m, by summation.
RECURSIVE DaysBeforeMonth(_, _)
DaysBeforeMonth(y, m) ==
    IF m <= 1 THEN 0 ELSE DaysBeforeMonth(y, m - 1) + DaysInMonth(y, m - 1)

DaysBeforeYear(y) ==
    (y - 1) * 365 + ((y - 1) \div 4) - ((y - 1) \div 100) + ((y - 1) \div 400)

\* date(y, m, d).toordinal(): 1 for 0001-01-01.
Ymd2Ord(y, m, d) == DaysBeforeYear(y) + DaysBeforeMonth(y, m) + d

ValidDate(y, m, d) ==
    /\ y \in MINYEAR..MAXYEAR
    /\ m \in 1..12
    /\ d \in 1..DaysInMonth(y, m)

\* date.fromordinal(n) as datetime computes it: 400-, 100-, 4- and 1-year
\* cycles, then an estimate of the month corrected downwards.
Ord2Ymd(n) ==
    LET n0 == n - 1
        n400 == n0 \div 146097
        r400 == n0 % 146097
        n100 == r400 \div 36524
        r100 == r400 % 36524
        n4 == r100 \div 1461
        r4 == r100 % 1461
        n1 == r4 \div 365
        r1 == r4 % 365
        year == n400 * 400 + 1 + n100 * 100 + n4 * 4 + n1
        leapyear == (n1 = 3) /\ ((n4 # 24) \/ (n100 = 3))
        DBM(mm) == DaysBeforeMonth(IF leapyear THEN 4 ELSE 1, mm)
        est == (r1 + 50) \div 32
        month == IF DBM(est) > r1 THEN est - 1 ELSE est
    IN  IF n1 = 4 \/ n100 = 4
        THEN [y |-> year - 1, m |-> 12, d |-> 31]
        ELSE [y |-> year, m |-> month, d |-> r1 - DBM(month) + 1]

EpochOrdinal == Ymd2Ord(EpochYear, EpochMonth, EpochDay)
MaxOrdinal == Ymd2Ord(MAXYEAR, 12, 31)

(***************************************************************************)
(* strftime('%Y-%m-%d'): the text is a sequence of one-character strings.  *)
(***************************************************************************)
DigitChars == <<"0", "1", "2", "3", "4", "5", "6", "7", "8", "9">>

Digit(d) == DigitChars[d + 1]

\* n in decimal, without padding.
RECURSIVE Decimal(_)
Decimal(n) == IF n < 10 THEN <<Digit(n)>> ELSE Decimal(n \div 10) \o <<Digit(n % 10)>>

\* n in decimal, zero-padded on the left to at least w characters.
RECURSIVE ZeroPad(_, _)
ZeroPad(chars, w) == IF Len(chars) >= w THEN chars ELSE ZeroPad(<<"0">> \o chars, w)

\* %Y is handed to the C library: glibc prints the year unpadded, the other
\* platforms pad it to four digits; %m and %d are two digits everywhere.
strftime(date) ==
    (IF pad_year THEN ZeroPad(Decimal(date.y), 4) ELSE Decimal(date.y))
        \o <<"-">> \o ZeroPad(Decimal(date.m), 2)
        \o <<"-">> \o ZeroPad(Decimal(date.d), 2)

(***************************************************************************)
(* spss_date_to_string (lines 7-15).                                       *)
(***************************************************************************)
\* timedelta(seconds=v) normalised: whole days (floor) of v = hi*86400 + lo.
DeltaDays(v) == v.hi + (v.lo \div SecondsPerDay)

\* The try block raises TypeError (a str), OverflowError (inf, a timedelta
\* beyond 999999999 days, a date outside 0001..9999): all are caught.
Raises(v) ==
    \/ v.k # "num"
    \/ DeltaDays(v) > MaxDeltaDays
    \/ DeltaDays(v) < -MaxDeltaDays
    \/ EpochOrdinal + DeltaDays(v) < 1
    \/ EpochOrdinal + DeltaDays(v) > MaxOrdinal

spss_date_to_string(v) ==
    IF v.k = "nan" THEN NoneV
    ELSE IF Raises(v) THEN NoneV
    ELSE Str(strftime(Ord2Ymd(EpochOrdinal + DeltaDays(v))))

(***************************************************************************)
(* Variable groups.                                                        *)
(***************************************************************************)
dateVars == <<spss_date, date_string>>
engineVars == <<sav_kind, sav_content, df, column_map, date_idx, excel_state, epc, eoutcome>>
batchVars == <<call, sav_files, sav_file, disk, out_dir, out_files, i, results, bpc, ret>>
vars == <<pad_year, stdout, dateVars, engineVars, batchVars>>

\* The values the variables of a specification that does not use them hold.
DateIdle == spss_date = Unset /\ date_string = Unset
EngineIdle ==
    /\ sav_kind = "none" /\ sav_content = <<>> /\ df = <<>> /\ column_map = <<>>
    /\ date_idx = 0 /\ excel_state = "none" /\ epc = "idle" /\ eoutcome = "idle"
BatchIdle ==
    /\ call = "none" /\ sav_files = <<>> /\ sav_file = "none" /\ disk = <<>>
    /\ out_dir = "none" /\ out_files = <<>> /\ i = 0 /\ results = <<>>
    /\ bpc = "idle" /\ ret = "none"

(***************************************************************************)
(* SpecDate: spss_date_to_string applied to one raw cell value.            *)
(***************************************************************************)
DaysFromEpoch(y, m, d) == Ymd2Ord(y, m, d) - EpochOrdinal

\* Day offsets from the epoch at the edges of the calendar's cases: leap days,
\* century years, the turn of the year 1000, both ends of datetime's range.
SpecialDays ==
    { DaysFromEpoch(1584, 2, 29), DaysFromEpoch(1600, 2, 29), DaysFromEpoch(1700, 2, 28),
      DaysFromEpoch(1700, 3, 1), DaysFromEpoch(1999, 12, 31), DaysFromEpoch(2000, 2, 29),
      DaysFromEpoch(2024, 12, 31), DaysFromEpoch(1000, 1, 1), DaysFromEpoch(999, 12, 31),
      DaysFromEpoch(100, 3, 1), DaysFromEpoch(MINYEAR, 1, 1), DaysFromEpoch(MINYEAR, 1, 1) - 1,
      DaysFromEpoch(MAXYEAR, 12, 31), DaysFromEpoch(MAXYEAR, 12, 31) + 1 }

DayOffsets == (-MaxDay .. MaxDay) \cup SpecialDays

SecondOffsets == {-1, 0, 1, SecondsPerDay - 1, SecondsPerDay}

RawValues ==
    { Num(hi, lo) : hi \in DayOffsets, lo \in SecondOffsets }
        \cup { Num(MaxDeltaDays + 1, 0), Num(-(MaxDeltaDays + 1), 0) }
        \cup { NoneV, InfV, Str(<<"x">>), Str(<<"1", "2">>) }

InitDate ==
    /\ pad_year \in BOOLEAN
    /\ stdout = <<>>
    /\ spss_date \in RawValues
    /\ date_string = Unset
    /\ EngineIdle
    /\ BatchIdle

CallDate ==
    /\ date_string = Unset
    /\ date_string' = spss_date_to_string(spss_date)
    /\ UNCHANGED <<pad_year, stdout, spss_date, engineVars, batchVars>>

NextDate == CallDate

SpecDate == InitDate /\ [][NextDate]_vars

(***************************************************************************)
(* C6.  The text of a date is read back and compared with the calendar.    *)
(***************************************************************************)
IsDigit(c) == \E d \in 0..9 : Digit(d) = c

DigitValue(c) == CHOOSE d \in 0..9 : Digit(d) = c

\* The text has the shape YYYY-MM-DD.
WellFormedDate(chars) ==
    /\ Len(chars) = 10
    /\ chars[5] = "-" /\ chars[8] = "-"
    /\ \A j \in {1, 2, 3, 4, 6, 7, 9, 10} : IsDigit(chars[j])

TextYear(chars) ==
    1000 * DigitValue(chars[1]) + 100 * DigitValue(chars[2])
        + 10 * DigitValue(chars[3]) + DigitValue(chars[4])
TextMonth(chars) == 10 * DigitValue(chars[6]) + DigitValue(chars[7])
TextDay(chars) == 10 * DigitValue(chars[9]) + DigitValue(chars[10])

\* floor(v / 86400) for v = hi * 86400 + lo, by its defining inequality.
WholeDays(v) ==
    CHOOSE q \in (v.hi - 2) .. (v.hi + 2) :
        /\ (q - v.hi) * SecondsPerDay <= v.lo
        /\ v.lo < (q - v.hi + 1) * SecondsPerDay

\* epoch + v seconds is a date of the years 0001..9999.
Representable(v) ==
    /\ v.k = "num"
    /\ v.hi \in -MaxDeltaDays .. MaxDeltaDays
    /\ EpochOrdinal + WholeDays(v) \in 1 .. MaxOrdinal

\* The text is the date WholeDays(v) days after the epoch, as YYYY-MM-DD.
IsDateOf(text, v) ==
    /\ text.k = "str"
    /\ WellFormedDate(text.s)
    /\ ValidDate(TextYear(text.s), TextMonth(text.s), TextDay(text.s))
    /\ DaysFromEpoch(TextYear(text.s), TextMonth(text.s), TextDay(text.s)) = WholeDays(v)

\* C6: spss_date_to_string gives, for every numeric value in the representable
\* range, the calendar date of epoch + v seconds as YYYY-MM-DD (0 gives
\* 1582-10-14, 86400 gives 1582-10-15), and null for a null, a non-numeric or
\* an out-of-range value.
C6_DateNormalization ==
    date_string # Unset =>
        /\ Representable(spss_date) => IsDateOf(date_string, spss_date)
        /\ ~Representable(spss_date) => date_string = NoneV
        /\ spss_date = Num(0, 0) =>
               date_string = Str(<<"1", "5", "8", "2", "-", "1", "0", "-", "1", "4">>)
        /\ spss_date = Num(0, SecondsPerDay) =>
               date_string = Str(<<"1", "5", "8", "2", "-", "1", "0", "-", "1", "5">>)

\* The same statement for the dates of the years 1000..9999, the ones whose
\* year has four digits by itself: it holds on every platform.
DateNormalizationFromYear1000 ==
    (date_string # Unset /\ WholeDays(spss_date) >= DaysFromEpoch(1000, 1, 1)) =>
        /\ Representable(spss_date) => IsDateOf(date_string, spss_date)
        /\ ~Representable(spss_date) => date_string = NoneV

\* The failing case of C6: a date of a year before 1000 on a platform whose
\* strftime does not pad the year.
ShortYearReached ==
    /\ date_string.k = "str"
    /\ Len(date_string.s) < 10

(***************************************************************************)
(* convert_sav_to_excel (lines 17-53): the operators of its statements.    *)
(***************************************************************************)
\* A variable without a label: pyreadstat reports None.
NoLabel == "None"

\* Line 38.
date_columns == <<"Date_Discussed_MTB", "Date_NGS_Perfomed">>

\* Line 28: the DataFrame pyreadstat returns, its columns named by variable.
ReadFrame(content) ==
    [c \in 1..Len(content) |-> [header |-> content[c].name, cells |-> content[c].cells]]

\* Line 28: meta.column_names_to_labels, in column order.
ReadMeta(content) ==
    [c \in 1..Len(content) |-> [name |-> content[c].name, label |-> content[c].label]]

\* Python's truth value of a label: None and '' are false.
Truthy(label) == label # NoLabel /\ label # ""

\* Line 31 without its filter `if label`: every variable is mapped, also
\* to None and to ''.
ColumnMapAll(labels) ==
    [n \in {labels[c].name : c \in 1..Len(labels)} |->
        labels[CHOOSE c \in 1..Len(labels) : labels[c].name = n].label]

\* Line 31: {var: label for var, label in ... if label}.
ColumnMap(labels) ==
    LET kept == {c \in 1..Len(labels) : Truthy(labels[c].label)}
    IN  [n \in {labels[c].name : c \in kept} |->
            labels[CHOOSE c \in kept : labels[c].name = n].label]

\* dict.get(key, default).
MapGet(map, key, default) == IF key \in DOMAIN map THEN map[key] ELSE default

\* Lines 34-35: df.rename(columns=column_map, inplace=True); an empty map
\* renames nothing, as the guard of line 34 has it.
Rename(frame, map) ==
    [c \in 1..Len(frame) |->
        [header |-> MapGet(map, frame[c].header, frame[c].header),
         cells |-> frame[c].cells]]

\* Series.apply(spss_date_to_string): the function on every cell.
ApplyDates(cells) == [r \in 1..Len(cells) |-> spss_date_to_string(cells[r])]

\* Lines 41-43 for one entry col of date_columns.  df[new_col_name] is a
\* Series when one column bears the header; when several do it is a
\* DataFrame, whose apply hands whole columns to spss_date_to_string, and
\* `if pd.isna(<Series>)` raises ValueError outside the function's try.
DateStep(frame, map, col) ==
    LET new_col_name == MapGet(map, col, col)
        hits == {c \in 1..Len(frame) : frame[c].header = new_col_name}
    IN  IF hits = {} THEN [raised |-> FALSE, df |-> frame]
        ELSE IF Cardinality(hits) > 1 THEN [raised |-> TRUE, df |-> frame]
        ELSE [raised |-> FALSE,
              df |-> [c \in 1..Len(frame) |->
                         IF c \in hits
                         THEN [header |-> frame[c].header, cells |-> ApplyDates(frame[c].cells)]
                         ELSE frame[c]]]

\* Lines 39-43: the loop over date_columns from entry k on.
RECURSIVE DateLoop(_, _, _)
DateLoop(frame, map, k) ==
    IF k > Len(date_columns) THEN [raised |-> FALSE, df |-> frame]
    ELSE LET step == DateStep(frame, map, date_columns[k])
         IN  IF step.raised THEN step ELSE DateLoop(step.df, map, k + 1)

\* What lies at an output path.
Absent == [kind |-> "absent", table |-> <<>>]
OldFile == [kind |-> "old", table |-> <<>>]
Partial == [kind |-> "partial", table |-> <<>>]
Written(frame) == [kind |-> "written", table |-> frame]

\* Line 46: df.to_excel(excel_path, index=False) writes straight to
\* excel_path.  how is the environment's part: "ok"; "open_fails" (the
\* directory is missing or not writable: nothing is created); "fails_midway"
\* (the file was opened, hence created or truncated, and the write then
\* failed: nothing removes it).
WriteExcel(before, frame, how) ==
    IF how = "ok" THEN [raised |-> FALSE, file |-> Written(frame)]
    ELSE IF how = "open_fails" THEN [raised |-> TRUE, file |-> before]
    ELSE [raised |-> TRUE, file |-> Partial]

\* The lines convert_sav_to_excel prints (lines 48, 51, 53).
MsgSuccess == "Successfully converted"
MsgNotFound == "Error: The file was not found."
MsgError == "An error occurred"

EngineErrors == {MsgNotFound, MsgError}

ReadExceptions == {"FileNotFoundError", "Exception"}
WriteOutcomes == {"ok", "open_fails", "fails_midway"}

\* The handlers of lines 50-53: what is printed for an exception.
Handler(exc) == IF exc = "FileNotFoundError" THEN MsgNotFound ELSE MsgError

\* The whole call.  env.read is the exception the parser raises for a file
\* that is not there (FileNotFoundError or the library's own error class),
\* env.write the outcome of the write.  Both handlers print and fall off the
\* end of the function: the call returns None whatever happened.
convert_sav_to_excel(kind, content, before, env) ==
    IF kind = "missing" THEN [file |-> before, msg |-> Handler(env.read), raised |-> FALSE]
    ELSE IF kind = "corrupt" THEN [file |-> before, msg |-> MsgError, raised |-> FALSE]
    ELSE LET map == ColumnMap(ReadMeta(content))
             dated == DateLoop(Rename(ReadFrame(content), map), map, 1)
             wrote == WriteExcel(before, dated.df, env.write)
         IN  IF dated.raised THEN [file |-> before, msg |-> MsgError, raised |-> FALSE]
             ELSE IF wrote.raised THEN [file |-> wrote.file, msg |-> MsgError, raised |-> FALSE]
             ELSE [file |-> wrote.file, msg |-> MsgSuccess, raised |-> FALSE]

(***************************************************************************)
(* SpecEngine: one call of convert_sav_to_excel, statement by statement.   *)
(***************************************************************************)
VariableNames == {"Date_Discussed_MTB", "Date_NGS_Perfomed", "Age"}
Labels == {NoLabel, "", "Visit", "Date_NGS_Perfomed"}
CellValues == {Num(0, SecondsPerDay), Str(<<"x">>)}

Columns == [name : VariableNames, label : Labels, cells : [1..NRows -> CellValues]]

\* The datasets a .sav file can hold: variable names are unique.
Datasets ==
    UNION { { ds \in [1..n -> Columns] :
                \A a, b \in 1..n : a # b => ds[a].name # ds[b].name } : n \in 1..MaxCols }

Emit(line) == stdout' = Append(stdout, line)

InitEngine ==
    /\ pad_year \in BOOLEAN
    /\ stdout = <<>>
    /\ DateIdle
    /\ BatchIdle
    /\ sav_kind \in {"missing", "corrupt", "valid"}
    /\ sav_content \in (IF sav_kind = "valid" THEN Datasets ELSE {<<>>})
    /\ df = <<>>
    /\ column_map = <<>>
    /\ date_idx = 0
    /\ excel_state \in {Absent, OldFile}
    /\ epc = "read"
    /\ eoutcome = "running"

\* The handlers of lines 50-53 print and the function returns None.
EngineCaught(exc) ==
    /\ Emit(Handler(exc))
    /\ epc' = "done"
    /\ eoutcome' = "returned"

\* Line 28, the file parsed.
EngineRead ==
    /\ epc = "read" /\ sav_kind = "valid"
    /\ df' = ReadFrame(sav_content)
    /\ epc' = "rename"
    /\ UNCHANGED <<pad_year, stdout, dateVars, batchVars, sav_kind, sav_content,
                   column_map, date_idx, excel_state, eoutcome>>

\* Line 28, the parser raising: the file is not there, or is no .sav file.
EngineReadFails ==
    /\ epc = "read" /\ sav_kind # "valid"
    /\ \E exc \in (IF sav_kind = "missing" THEN ReadExceptions ELSE {"Exception"}) :
           EngineCaught(exc)
    /\ UNCHANGED <<pad_year, dateVars, batchVars, sav_kind, sav_content, df,
                   column_map, date_idx, excel_state>>

\* Lines 31-35.
EngineRename ==
    /\ epc = "rename"
    /\ column_map' = ColumnMap(ReadMeta(sav_content))
    /\ df' = Rename(df, column_map')
    /\ date_idx' = 1
    /\ epc' = "dates"
    /\ UNCHANGED <<pad_year, stdout, dateVars, batchVars, sav_kind, sav_content,
                   excel_state, eoutcome>>

\* Lines 39-43, one iteration that does not raise.
EngineDate ==
    /\ epc = "dates"
    /\ LET step == DateStep(df, column_map, date_columns[date_idx])
       IN  /\ ~step.raised
           /\ df' = step.df
    /\ date_idx' = date_idx + 1
    /\ epc' = IF date_idx' > Len(date_columns) THEN "write" ELSE "dates"
    /\ UNCHANGED <<pad_year, stdout, dateVars, batchVars, sav_kind, sav_content,
                   column_map, excel_state, eoutcome>>

\* Lines 39-43, one iteration that raises.
EngineDateFails ==
    /\ epc = "dates"
    /\ DateStep(df, column_map, date_columns[date_idx]).raised
    /\ EngineCaught("Exception")
    /\ UNCHANGED <<pad_year, dateVars, batchVars, sav_kind, sav_content, df,
                   column_map, date_idx, excel_state>>

\* Lines 46-48.
EngineWrite ==
    /\ epc = "write"
    /\ excel_state' = WriteExcel(excel_state, df, "ok").file
    /\ Emit(MsgSuccess)
    /\ epc' = "done"
    /\ eoutcome' = "returned"
    /\ UNCHANGED <<pad_year, dateVars, batchVars, sav_kind, sav_content, df,
                   column_map, date_idx>>

\* Line 46 raising.
EngineWriteFails ==
    /\ epc = "write"
    /\ \E how \in WriteOutcomes \ {"ok"} :
           excel_state' = WriteExcel(excel_state, df, how).file
    /\ EngineCaught("Exception")
    /\ UNCHANGED <<pad_year, dateVars, batchVars, sav_kind, sav_content, df,
                   column_map, date_idx>>

NextEngine ==
    \/ EngineRead
    \/ EngineReadFails
    \/ EngineRename
    \/ EngineDate
    \/ EngineDateFails
    \/ EngineWrite
    \/ EngineWriteFails

SpecEngine == InitEngine /\ [][NextEngine]_vars

(***************************************************************************)
(* Claims about the Engine, checked under SpecEngine.                      *)
(***************************************************************************)
Last(seq) == seq[Len(seq)]

\* The call is over and did not convert: an error line was printed.
EngineFailed == epc = "done" /\ Last(stdout) \in EngineErrors

\* The statements of SpecEngine end as the whole call does.
StepwiseAgrees ==
    epc = "done" =>
        \E before \in {Absent, OldFile}, r \in ReadExceptions, w \in WriteOutcomes :
            LET res == convert_sav_to_excel(sav_kind, sav_content, before,
                                            [read |-> r, write |-> w])
            IN  res.file = excel_state /\ res.msg = Last(stdout)

\* C2: convert_sav_to_excel fails visibly (does not return normally) when the
\* input is missing or unreadable, cannot be parsed, or the output cannot be
\* written; it returns normally only when the output file was written.
C2_FailureVisible ==
    epc = "done" =>
        /\ sav_kind # "valid" => eoutcome = "raised"
        /\ eoutcome = "returned" => excel_state.kind = "written"

\* The header the spec gives a column: its label when present and non-empty,
\* else its variable name.
ExpectedHeader(col) ==
    IF col.label = NoLabel \/ col.label = "" THEN col.name ELSE col.label

\* A frame has the input's columns, in order, under the expected headers.
HeadersMatch(frame) ==
    /\ Len(frame) = Len(sav_content)
    /\ \A c \in 1..Len(frame) :
           /\ frame[c].header = ExpectedHeader(sav_content[c])
           /\ Len(frame[c].cells) = Len(sav_content[c].cells)

\* C5: after the renaming step every column header is the variable's label
\* when present and non-empty, else the variable's name, and the columns are
\* the input's columns in the same order, none dropped or added; the same is
\* true of the table written to the output.
C5_HeadersAndOrder ==
    /\ epc \in {"dates", "write"} => HeadersMatch(df)
    /\ (epc = "dates" /\ date_idx = 1) =>
           \A c \in 1..Len(df) : df[c].cells = sav_content[c].cells
    /\ excel_state.kind = "written" => HeadersMatch(excel_state.table)

\* C5's case: a written table of two columns, the first with an empty label,
\* the second with a real one.
C5_Witness ==
    /\ excel_state.kind = "written"
    /\ Len(sav_content) = 2
    /\ sav_content[1].label = ""
    /\ sav_content[2].label = "Visit"
    /\ excel_state.table[1].header = sav_content[1].name
    /\ excel_state.table[2].header = "Visit"

InAllowList(name) == \E k \in 1..Len(date_columns) : date_columns[k] = name

\* C7: the date normalization is applied to a column if and only if its
\* original variable name is in the allow-list; every other column reaches
\* the output with the parsed values.
C7_DateAllowList ==
    excel_state.kind = "written" =>
        \A c \in 1..Len(sav_content) :
            excel_state.table[c].cells =
                IF InAllowList(sav_content[c].name)
                THEN ApplyDates(sav_content[c].cells)
                ELSE sav_content[c].cells

\* What the code does instead: the columns rewritten are those whose header
\* after renaming is the label of an allow-listed variable or is itself an
\* allow-listed name that no label maps away.
DateTargets(content) ==
    LET map == ColumnMap(ReadMeta(content))
    IN  { MapGet(map, date_columns[k], date_columns[k]) : k \in 1..Len(date_columns) }

DateStepByHeader ==
    excel_state.kind = "written" =>
        \A c \in 1..Len(sav_content) :
            ExpectedHeader(sav_content[c]) \notin DateTargets(sav_content) =>
                excel_state.table[c].cells = sav_content[c].cells

\* C8: a call that fails leaves no new and no truncated file at the output
\* path: what lay there before the call still does.
C8_NoPartialOutput ==
    EngineFailed => excel_state \in {Absent, OldFile}

(***************************************************************************)
(* Paths.  An input path is dir/stem+ext, given as str or as bytes.        *)
(***************************************************************************)
Path(dir, stem, ext, bytes) == [dir |-> dir, stem |-> stem, ext |-> ext, bytes |-> bytes]

\* The file a path names, whichever type the path has.
FsPath(p) == [dir |-> p.dir, stem |-> p.stem, ext |-> p.ext]

\* str.lower() on an extension.
Lower(ext) == IF ext = ".SAV" THEN ".sav" ELSE ext

\* Lines 83-85 (and gradio_app.py lines 32-34):
\* os.path.splitext(os.path.basename(sav_file))[0] + ".xlsx", the directory
\* and the extension of the input dropped, joined to output_dir.
ExcelFilename(p) == [stem |-> p.stem, ext |-> ".xlsx"]

ExcelPath(p) == [dir |-> "output_dir", name |-> ExcelFilename(p)]

\* Line 84 on a bytes path: bytes + ".xlsx" raises TypeError inside the try.
NamingRaises(p) == p.bytes

(***************************************************************************)
(* Spec: the file system, and the two callers of the Engine.               *)
(***************************************************************************)
InputPaths ==
    { Path(d, s, ".sav", FALSE) : d \in {"a", "b"}, s \in {"x", "y"} }
        \cup { Path("a", "x", ".sav", TRUE) }

UploadPaths == { Path("a", "x", e, FALSE) : e \in {".sav", ".SAV", ".txt"} }

NoUpload == Path("", "", "", FALSE)

\* The dataset of a valid input file: it names its file, so that the
\* conversions of two files differ.
SampleDataset(f) ==
    << [name |-> "File_ID", label |-> "File",
        cells |-> [r \in 1..NRows |-> Str(<<f.dir, f.stem>>)]],
       [name |-> "Date_Discussed_MTB", label |-> NoLabel,
        cells |-> [r \in 1..NRows |-> Num(0, SecondsPerDay)]] >>

FileStates(f) ==
    { [kind |-> "missing", content |-> <<>>],
      [kind |-> "corrupt", content |-> <<>>],
      [kind |-> "valid", content |-> SampleDataset(f)] }

Range(seq) == {seq[k] : k \in 1..Len(seq)}

SeqsUpTo(S, n) == UNION {[1..m -> S] : m \in 0..n}

OutputNames == {ExcelFilename(p) : p \in InputPaths \cup UploadPaths}

InitSpec ==
    /\ pad_year \in BOOLEAN
    /\ stdout = <<>>
    /\ DateIdle
    /\ EngineIdle
    /\ call \in {"batch", "single"}
    /\ sav_files \in (IF call = "batch" THEN SeqsUpTo(InputPaths, MaxFiles) ELSE {<<>>})
    /\ sav_file \in (IF call = "single" THEN UploadPaths \cup {NoUpload} ELSE {NoUpload})
    /\ LET used == {FsPath(p) : p \in Range(sav_files) \cup ({sav_file} \ {NoUpload})}
       IN  disk \in {d \in [used -> UNION {FileStates(f) : f \in used}] :
                        \A f \in used : d[f] \in FileStates(f)}
    /\ out_dir \in {"missing", "uncreatable", "dir", "file"}
    /\ out_files = [n \in OutputNames |-> Absent]
    /\ i = 0
    /\ results = [successful |-> <<>>, failed |-> <<>>, total |-> 0]
    /\ bpc = "start"
    /\ ret = "none"

\* The outcomes the write of line 46 can have under output_dir: a file in
\* place of the directory lets no file be opened below it.
WritesUnder(dir) == IF dir = "dir" THEN WriteOutcomes ELSE {"open_fails"}

\* The environments of one Engine call on file state fs.
Environments(fs, dir) ==
    { [read |-> r, write |-> w] :
        r \in (IF fs.kind = "missing" THEN ReadExceptions ELSE {"Exception"}),
        w \in (IF fs.kind = "valid" THEN WritesUnder(dir) ELSE {"ok"}) }

\* Lines 73-74 (and gradio_app.py lines 28-29).
MakeDirs(dir) == IF dir = "missing" THEN "dir" ELSE dir

MakeDirsRaises(dir) == dir = "uncreatable"

\* Lines 89-93 and 98-101: the entries of the two lists.
SuccessEntry(p) ==
    [input |-> p, output |-> ExcelPath(p), filename |-> ExcelFilename(p)]

FailureEntry(p, error) == [input |-> p, error |-> error]

RecordSuccess(res, p) == [res EXCEPT !.successful = Append(@, SuccessEntry(p))]

\* Lines 98-101 without the append: a failed item left out of the report.
RecordFailureDropped(res, p, error) == res

RecordFailure(res, p, error) == [res EXCEPT !.failed = Append(@, FailureEntry(p, error))]

MsgStart == "Starting batch conversion"
MsgItemOk == "Successfully converted (item)"
MsgItemFailed == "Failed to convert"
MsgSummary == "Batch Conversion Summary"

\* Lines 66-76.
BatchStart ==
    /\ call = "batch" /\ bpc = "start"
    /\ ~MakeDirsRaises(out_dir)
    /\ results' = [successful |-> <<>>, failed |-> <<>>, total |-> Len(sav_files)]
    /\ out_dir' = MakeDirs(out_dir)
    /\ Emit(MsgStart)
    /\ bpc' = "loop"
    /\ UNCHANGED <<pad_year, dateVars, engineVars, call, sav_files, sav_file, disk,
                   out_files, i, ret>>

\* Line 74 raising: os.makedirs is outside every try.
BatchMkdirFails ==
    /\ call = "batch" /\ bpc = "start"
    /\ MakeDirsRaises(out_dir)
    /\ results' = [successful |-> <<>>, failed |-> <<>>, total |-> Len(sav_files)]
    /\ bpc' = "raised"
    /\ UNCHANGED <<pad_year, stdout, dateVars, engineVars, call, sav_files, sav_file,
                   disk, out_dir, out_files, i, ret>>

\* Lines 79-88: the body of the try up to the Engine's return.  The naming
\* raises for a bytes path; otherwise the Engine is called and whatever it
\* raises would pass to the handler of line 96.
ItemTry(p, fs, before, env) ==
    IF NamingRaises(p)
    THEN [raised |-> TRUE, error |-> "TypeError", file |-> before, lines |-> <<>>]
    ELSE LET r == convert_sav_to_excel(fs.kind, fs.content, before, env)
         IN  [raised |-> r.raised, error |-> r.msg, file |-> r.file, lines |-> <<r.msg>>]

\* Lines 78-94: one item whose try block runs to its end.
BatchItem ==
    /\ call = "batch" /\ bpc = "loop" /\ i < Len(sav_files)
    /\ LET p == sav_files[i + 1]
           name == ExcelFilename(p)
       IN  \E env \in Environments(disk[FsPath(p)], out_dir) :
               LET t == ItemTry(p, disk[FsPath(p)], out_files[name], env)
               IN  /\ ~t.raised
                   /\ out_files' = [out_files EXCEPT ![name] = t.file]
                   /\ stdout' = stdout \o t.lines \o <<MsgItemOk>>
                   /\ results' = RecordSuccess(results, p)
    /\ i' = i + 1
    /\ UNCHANGED <<pad_year, dateVars, engineVars, call, sav_files, sav_file, disk,
                   out_dir, bpc, ret>>

\* Lines 78-102: one item whose try block raises, the handler of line 96.
BatchItemFails ==
    /\ call = "batch" /\ bpc = "loop" /\ i < Len(sav_files)
    /\ LET p == sav_files[i + 1]
           name == ExcelFilename(p)
       IN  \E env \in Environments(disk[FsPath(p)], out_dir) :
               LET t == ItemTry(p, disk[FsPath(p)], out_files[name], env)
               IN  /\ t.raised
                   /\ out_files' = [out_files EXCEPT ![name] = t.file]
                   /\ stdout' = stdout \o t.lines \o <<MsgItemFailed>>
                   /\ results' = RecordFailure(results, p, t.error)
    /\ i' = i + 1
    /\ UNCHANGED <<pad_year, dateVars, engineVars, call, sav_files, sav_file, disk,
                   out_dir, bpc, ret>>

\* Lines 104-115.
BatchReturn ==
    /\ call = "batch" /\ bpc = "loop" /\ i = Len(sav_files)
    /\ Emit(MsgSummary)
    /\ ret' = results
    /\ bpc' = "returned"
    /\ UNCHANGED <<pad_year, dateVars, engineVars, call, sav_files, sav_file, disk,
                   out_dir, out_files, i, results>>

(***************************************************************************)
(* process_single_sav_file (gradio_app.py lines 8-42).                     *)
(***************************************************************************)
NoFile == [dir |-> "", name |-> [stem |-> "", ext |-> ""]]

StatusUploadFirst == "Please upload a .sav file first."
StatusNotSav == "Please upload a valid .sav file."
StatusConverted == "Successfully converted"
StatusError == "An error occurred"

\* Lines 19-24: nothing uploaded, or a name that does not end in .sav.
SingleReject ==
    /\ call = "single" /\ bpc = "start"
    /\ sav_file = NoUpload \/ Lower(sav_file.ext) # ".sav"
    /\ ret' = [file |-> NoFile,
               status |-> IF sav_file = NoUpload THEN StatusUploadFirst ELSE StatusNotSav]
    /\ bpc' = "returned"
    /\ UNCHANGED <<pad_year, stdout, dateVars, engineVars, call, sav_files, sav_file,
                   disk, out_dir, out_files, i, results>>

\* Lines 26-29 raising, caught at line 41.
SingleMkdirFails ==
    /\ call = "single" /\ bpc = "start"
    /\ sav_file # NoUpload /\ Lower(sav_file.ext) = ".sav"
    /\ MakeDirsRaises(out_dir)
    /\ ret' = [file |-> NoFile, status |-> StatusError]
    /\ bpc' = "returned"
    /\ UNCHANGED <<pad_year, stdout, dateVars, engineVars, call, sav_files, sav_file,
                   disk, out_dir, out_files, i, results>>

\* Lines 26-39: the directory, the names, the Engine, the return; the
\* handler of line 41 for an Engine that raises.
SingleConvert ==
    /\ call = "single" /\ bpc = "start"
    /\ sav_file # NoUpload /\ Lower(sav_file.ext) = ".sav"
    /\ ~MakeDirsRaises(out_dir)
    /\ out_dir' = MakeDirs(out_dir)
    /\ LET name == ExcelFilename(sav_file)
       IN  \E env \in Environments(disk[FsPath(sav_file)], out_dir') :
               LET t == ItemTry(sav_file, disk[FsPath(sav_file)], out_files[name], env)
               IN  /\ out_files' = [out_files EXCEPT ![name] = t.file]
                   /\ stdout' = stdout \o t.lines
                   /\ ret' = IF t.raised
                             THEN [file |-> NoFile, status |-> StatusError]
                             ELSE [file |-> ExcelPath(sav_file), status |-> StatusConverted]
    /\ bpc' = "returned"
    /\ UNCHANGED <<pad_year, dateVars, engineVars, call, sav_files, sav_file, disk,
                   i, results>>

Next ==
    \/ BatchStart
    \/ BatchMkdirFails
    \/ BatchItem
    \/ BatchItemFails
    \/ BatchReturn
    \/ SingleReject
    \/ SingleMkdirFails
    \/ SingleConvert

Spec == InitSpec /\ [][Next]_vars

(***************************************************************************)
(* Claims about the batch and the front-end, checked under Spec.           *)
(***************************************************************************)
Count(seq, x) == Cardinality({k \in 1..Len(seq) : seq[k] = x})

Inputs(entries) == [k \in 1..Len(entries) |-> entries[k].input]

\* The input at position k is missing or corrupt.
BadInput(k) == disk[FsPath(sav_files[k])].kind \in {"missing", "corrupt"}

\* The Engine's error lines among the lines printed.
EngineErrorLines == {k \in 1..Len(stdout) : stdout[k] \in EngineErrors}

\* The sequence without its k-th element.
Without(seq, k) ==
    [j \in 1..(Len(seq) - 1) |-> IF j < k THEN seq[j] ELSE seq[j + 1]]

\* C1: in a batch in which exactly one input k is corrupt, missing or
\* unreadable (the output directory in place, every other conversion having
\* gone through), the report has a
\* Success entry for each other input and exactly one Failure entry, whose
\* input is k; k has no Success entry.
C1_Isolation ==
    (call = "batch" /\ bpc = "returned") =>
        \A k \in 1..Len(sav_files) :
            ( /\ out_dir = "dir"
              /\ BadInput(k)
              /\ \A j \in 1..Len(sav_files) : j # k => ~BadInput(j) /\ ~sav_files[j].bytes
              /\ Cardinality(EngineErrorLines) = 1 )
            => /\ Inputs(ret.failed) = <<sav_files[k]>>
               /\ Inputs(ret.successful) = Without(sav_files, k)

\* C3: the two lists of the report together hold one entry per processed
\* item (i entries after i items, total entries in the returned report),
\* total is the number of inputs, and every input is in exactly one list.
C3_Partition ==
    (call = "batch" /\ bpc \in {"loop", "returned"}) =>
        /\ Len(results.successful) + Len(results.failed) = i
        /\ results.total = Len(sav_files)
        /\ \A p \in InputPaths :
               /\ Count(Inputs(results.successful), p) + Count(Inputs(results.failed), p)
                      = Count(SubSeq(sav_files, 1, i), p)
               /\ ~(p \in Range(Inputs(results.successful))
                      /\ p \in Range(Inputs(results.failed)))
        /\ bpc = "returned" =>
               /\ ret = results
               /\ Len(ret.successful) + Len(ret.failed) = ret.total

\* C3's case: a returned report with an entry in each list.
C3_Witness ==
    /\ call = "batch" /\ bpc = "returned"
    /\ Len(ret.successful) >= 1
    /\ Len(ret.failed) >= 1
    /\ ret.total = MaxFiles

\* C4: the output directory exists before the Engine is invoked for the
\* first item; if it cannot be created the batch raises before any item is
\* attempted; and the batch raises in no other case.
C4_DirectoryFirst ==
    call = "batch" =>
        /\ (bpc = "loop" /\ i < Len(sav_files)) => out_dir = "dir"
        /\ out_dir \in {"uncreatable", "file"} =>
               /\ i = 0 /\ results.successful = <<>> /\ results.failed = <<>>
               /\ EngineErrorLines = {}
        /\ bpc = "raised" => out_dir = "uncreatable"

\* The same statement when no file lies in the directory's place: it holds.
DirectoryFirstUnlessFileInPlace ==
    (call = "batch" /\ out_dir # "file") =>
        /\ (bpc = "loop" /\ i < Len(sav_files)) => out_dir = "dir"
        /\ out_dir = "uncreatable" =>
               /\ i = 0 /\ results.successful = <<>> /\ results.failed = <<>>
               /\ EngineErrorLines = {}
               /\ bpc \in {"start", "raised"}
        /\ bpc = "raised" => out_dir = "uncreatable"

\* C9: process_single_sav_file returns an error text and no output file
\* whenever the conversion failed, and a success status with an output path
\* only when the conversion succeeded.
C9_SingleSurfacesError ==
    (call = "single" /\ bpc = "returned") =>
        /\ EngineErrorLines # {} => ret.file = NoFile /\ ret.status = StatusError
        /\ (ret.status = StatusConverted /\ ret.file # NoFile) =>
               /\ EngineErrorLines = {}
               /\ out_files[ret.file.name].kind = "written"

\* The conversion of a valid input, written to a fresh path.
ConversionOf(p) ==
    convert_sav_to_excel("valid", SampleDataset(FsPath(p)), Absent,
                         [read |-> "Exception", write |-> "ok"]).file

\* C10: in a batch of pairwise-distinct inputs that all convert, the Success
\* entries have pairwise-distinct output paths and the file at each entry's
\* output path is the conversion of that entry's own input.
C10_DistinctOutputs ==
    ( /\ call = "batch" /\ bpc = "returned"
      /\ \A a, b \in 1..Len(sav_files) : a # b => sav_files[a] # sav_files[b]
      /\ EngineErrorLines = {}
      /\ ret.failed = <<>> )
    => /\ \A a, b \in 1..Len(ret.successful) :
              a # b => ret.successful[a].output # ret.successful[b].output
       /\ \A a \in 1..Len(ret.successful) :
              out_files[ret.successful[a].filename] = ConversionOf(ret.successful[a].input)

\* The same statement for inputs of pairwise-distinct file stems: it holds.
DistinctStemsDistinctOutputs ==
    ( /\ call = "batch" /\ bpc = "returned"
      /\ \A a, b \in 1..Len(sav_files) : a # b => sav_files[a].stem # sav_files[b].stem
      /\ EngineErrorLines = {}
      /\ ret.failed = <<>> )
    => /\ \A a, b \in 1..Len(ret.successful) :
              a # b => ret.successful[a].output # ret.successful[b].output
       /\ \A a \in 1..Len(ret.successful) :
              out_files[ret.successful[a].filename] = ConversionOf(ret.successful[a].input)

====
